---- MODULE Spec2Model ----
(***************************************************************************)
(* Ticket extraction pipeline of the Linear and the Pylon exporters:       *)
(* LinearAPIClient (src/linear-exporter/linear_fetcher.py) and             *)
(* PylonAPIClient (src/pylon-exporter/pylon_fetcher.py).                   *)
(*                                                                         *)
(* One behaviour is one call of fetch_all_closed_tickets of one exporter.  *)
(* Every HTTP request is one step; the remote server is the environment    *)
(* and answers every request with any response of a small set.             *)
(* Time is counted in whole days.                                          *)
(***************************************************************************)
EXTENDS Integers, Sequences, FiniteSets, TLC

(* ------------------------------ bounds --------------------------------- *)
\* pages the server serves at most in one pagination
MaxPages == 3
\* tickets the server holds at most (over all list pages or chunks of a run)
MaxTickets == 2
\* comments/messages the server holds at most for one ticket
MaxComments == 2
\* ticket identifiers are 1..MaxId; 0 stands for a missing or empty id
MaxId == 2
\* cursors are 1..MaxCursor; 0 stands for None or the empty string
MaxCursor == 2
\* the clock may advance by at most MaxDrift days during one run
MaxDrift == 1

(* ------------------------- program constants --------------------------- *)
\* timedelta(days=30): the width of one chunk of the chunked scan
ChunkDays == 30

\* the day the run starts on (datetime.now() of the first reading)
Today == 4 * ChunkDays
\* the days_back arguments tried: an empty window, a window of exactly one
\* chunk, and a window of two chunks, the older of them cut at start_date
DaysBackSet == {0, ChunkDays, ChunkDays + 15}

(* ------------------------------ helpers -------------------------------- *)
SeqUpTo(S, n) == UNION {[1..k -> S] : k \in 0..n}

Max(a, b) == IF a >= b THEN a ELSE b

\* the comments/messages the server serves are opaque to the code: the
\* j-th one served in one retrieval is the number j
Numbered(from, n) == [j \in 1..n |-> from + j]

(* ------------------------------- data ---------------------------------- *)
\* a date field of a raw issue: missing/empty, unparseable, an ISO string
\* without offset (parsed to a naive datetime) or an ISO string ending in Z
\* or an offset (parsed to an aware datetime)
NoDate == [kind |-> "none", day |-> 0]
BadDate == [kind |-> "bad", day |-> 0]
Naive(d) == [kind |-> "naive", day |-> d]
Aware(d) == [kind |-> "aware", day |-> d]

Issue(id, st, c, u, cl) ==
    [id |-> id, state |-> st, created_at |-> c, updated_at |-> u, closed_at |-> cl]

\* the raw list items the Linear server may serve (the code reads only id)
LinearIssues == {Issue(id, "completed", NoDate, NoDate, NoDate) : id \in 0..MaxId}

\* the raw list items the Pylon server may serve
PylonIssues ==
    { Issue(1, "closed", Naive(Today - 10), NoDate, NoDate),
      Issue(2, "closed", Naive(Today - 100), Naive(Today - 5), NoDate),
      Issue(1, "open", Naive(Today - 10), NoDate, NoDate),
      Issue(0, "closed", Naive(Today - 10), NoDate, NoDate),
      Issue(2, "closed", Aware(Today - 10), NoDate, NoDate) }

Cursors == 0..MaxCursor

\* what a request can come back with: a 200 response, a non-200 response,
\* a 200 response carrying a GraphQL "errors" array, or no response at all
\* (requests raises: connection error, timeout, undecodable body)
LinearKinds == {"ok", "http", "errors", "exc"}
PylonKinds == {"ok", "http", "exc"}


\* the text of the exception a failed request raises (str(e))
ErrorText(kind) ==
    CASE kind = "http" -> "API request failed"
      [] kind = "errors" -> "GraphQL errors"
      [] OTHER -> "request exception"

\* the entries of an "errors" array: a message, or an entry without one
NoMessage == "absent"
ErrorArrays == {<<"m1">>, <<"m1", "m2">>, <<"m2", NoMessage>>}

\* what a request that did not come back with "errors" has in that place
NoErrors == <<>>

\* team_id is None
NoTeam == "None"

\* the values of FETCH_ALL_STATES and of team_id that are tried
EnvValues == {"", "true", "TRUE", "1", "Yes", "false", "0"}
TeamValues == {NoTeam, "", "team-1"}

\* the record has no "error" key
NoError == "absent"

\* except Exception as e: print(f"Error: {str(e)}") in main
MainPrints(e) == <<"Error", e>>

\* the outcomes of open(...) and json.dump(all_data, f): the file is written,
\* or the writing raises after open has created the file
DumpKinds == {"ok", "exc"}

\* the file: complete with all the data, or what a failed json.dump leaves
Written(data) == [complete |-> TRUE, data |-> data]
Truncated == [complete |-> FALSE, data |-> <<>>]

(* ------------------------------- state --------------------------------- *)
VARIABLES
    exporter,         \* "linear" or "pylon": the client whose method runs
    days_back,        \* the argument of fetch_all_closed_tickets
    state_arg,        \* Pylon: the state argument of the filter
    team_id,          \* Linear: the team_id argument
    fetch_all_states, \* Linear: the environment variable FETCH_ALL_STATES
    pc,               \* where the run stands
    now,              \* the clock that datetime.now() reads, in days
    start_date,       \* the window, in days
    end_date,
    issue_filter,     \* Linear: the filter of the list query (<<>>: not built)
    all_issues,       \* accumulator of the ticket-list pagination
    cursor,           \* its cursor (0: None)
    filtered_issues,  \* Pylon: the tickets that survived the filter
    current_end,      \* Pylon: upper end of the next chunk
    i,                \* position of the assembly loop in the ticket list
    all_tickets,      \* the records assembled so far
    all_comments,     \* Linear: accumulator of the comment pagination
    comment_cursor,   \* its cursor (0: None)
    result,           \* <<>> or <<the returned ExtractionResult>>
    \* what the server did, written by the requests and read by no action
    listFetch,        \* the pages served to the ticket-list pagination
    fetch,            \* the pages served to the latest conversation fetch
    primaryError,     \* "none", or what made the primary strategy raise
    chunkLog,         \* Pylon: the chunk requests issued, with their outcome
    searched,         \* Pylon: <<>> or <<what the search returned>>
    failedDetails,    \* list positions whose get_issue_details failed
    failedConv,       \* list positions whose conversation fetch failed
    \* main, the caller of fetch_all_closed_tickets
    reported,         \* <<>> or what the except branch of main printed
    output            \* the output file: <<>> (no file) or <<the file>>

vars == <<exporter, days_back, state_arg, team_id, fetch_all_states, pc, now,
          start_date, end_date, issue_filter, all_issues, cursor,
          filtered_issues, current_end, searched, i, all_tickets, all_comments,
          comment_cursor, result, listFetch, fetch, primaryError, chunkLog,
          failedDetails, failedConv, reported, output>>

mainVars == <<reported, output>>
argVars == <<exporter, days_back, state_arg, team_id, fetch_all_states>>
dateVars == <<now, start_date, end_date, issue_filter>>
listVars == <<all_issues, cursor, listFetch>>
pylonListVars == <<filtered_issues, current_end, chunkLog, searched>>
commentVars == <<all_comments, comment_cursor, fetch>>
failVars == <<failedDetails, failedConv>>

\* failure: the response the request that raised came back with
NoFailure == [kind |-> "ok", errors |-> NoErrors]

\* served: the items of all pages served; pages: their number; clean: every
\* page served held an item; more: the last page served announced a next one;
\* filters: the filters the requests of the Linear list query carried;
\* sent: the cursors the requests carried, in order (0: no cursor); told: the
\* cursor that came with the last page served, while the loop goes on (else 0)
FreshListFetch == [served |-> <<>>, pages |-> 0, clean |-> TRUE, more |-> FALSE,
                   sent |-> <<>>, told |-> 0, failure |-> NoFailure,
                   filters |-> {}]

\* idx: the list position the fetch is for; served: the number of items the
\* server held on the pages it was asked for; returned: the fetch has ended
\* without raising
FreshFetch == [idx |-> 0, served |-> 0, pages |-> 0, clean |-> TRUE,
               more |-> FALSE, returned |-> FALSE, sent |-> <<>>, told |-> 0,
               failure |-> NoFailure]

\* the list the assembly loop iterates over
TicketList == IF exporter = "linear" THEN all_issues ELSE filtered_issues

Init ==
    /\ exporter \in {"linear", "pylon"}
    /\ days_back \in IF exporter = "linear" THEN {ChunkDays} ELSE DaysBackSet
    /\ state_arg = "closed"
    /\ team_id = NoTeam
    /\ fetch_all_states = ""
    /\ pc = "idle"
    /\ now = Today
    /\ start_date = 0
    /\ end_date = 0
    /\ issue_filter = <<>>
    /\ all_issues = <<>>
    /\ cursor = 0
    /\ filtered_issues = <<>>
    /\ current_end = 0
    /\ i = 0
    /\ all_tickets = <<>>
    /\ all_comments = <<>>
    /\ comment_cursor = 0
    /\ result = <<>>
    /\ listFetch = FreshListFetch
    /\ fetch = FreshFetch
    /\ primaryError = "none"
    /\ chunkLog = <<>>
    /\ searched = <<>>
    /\ failedDetails = {}
    /\ failedConv = {}
    /\ reported = <<>>
    /\ output = <<>>

(* ------------------------- Linear: transport --------------------------- *)
ExecuteQueryReturns(resp) == FALSE

\* e.get("message", "Unknown error")
MessageOf(e) == IF e = NoMessage THEN "Unknown error" ELSE e

\* "; ".join(...) over the entries of the "errors" array
RECURSIVE JoinRest(_)
JoinRest(errors) ==
    IF errors = <<>> THEN ""
    ELSE IF Len(errors) = 1 THEN MessageOf(errors[1])
    ELSE MessageOf(errors[1]) \o "; " \o JoinRest(Tail(errors))

FirstMessage(errors) == IF errors = <<>> THEN "" ELSE MessageOf(errors[1])

\* error_messages = "; ".join(e.get("message", "Unknown error") for e in ...)
JoinedMessages(errors) == JoinRest(errors)

\* the text of the exception _execute_query raises (str(e))
ExecuteQueryError(resp) ==
    IF resp.kind = "errors" THEN "GraphQL errors: " \o JoinedMessages(resp.errors)
    ELSE ErrorText(resp.kind)

\* _execute_query raises on a non-200 status, on an "errors" field, and when
\* requests itself raises
ExecuteQueryRaises(resp) == resp.kind # "ok"

(* ------------------------------ the clock ------------------------------ *)
\* time passes while the run is under way
Tick ==
    /\ pc \notin {"idle", "done", "saved", "raised"}
    /\ now < Today + MaxDrift
    /\ now' = now + 1
    /\ UNCHANGED <<mainVars, argVars, pc, start_date, end_date, issue_filter,
                   listVars, pylonListVars, i, all_tickets, commentVars, result,
                   primaryError, failVars>>

FetchedAtStart(clock, started) == started

\* "fetched_at": datetime.now().isoformat(), evaluated when the result is built
FetchedAt(clock, started) == clock

(* ----------------------- Linear: fetch_closed_issues ------------------- *)
LinearListResponses(room) ==
    {[kind |-> k, nodes |-> <<>>, hasNextPage |-> FALSE, endCursor |-> 0,
      errors |-> NoErrors] : k \in LinearKinds \ {"ok", "errors"}}
    \cup
    {[kind |-> "errors", nodes |-> <<>>, hasNextPage |-> FALSE, endCursor |-> 0,
      errors |-> es] : es \in ErrorArrays}
    \cup
    {[kind |-> "ok", nodes |-> ns, hasNextPage |-> h, endCursor |-> c,
      errors |-> NoErrors] :
        ns \in SeqUpTo(LinearIssues, room), h \in BOOLEAN, c \in Cursors}

\* the response announces a next page and tells its cursor
AnnouncesNext(resp) == resp.hasNextPage /\ resp.endCursor # 0

SameCursor(previous, told) == previous

\* cursor = page_info["endCursor"] (cursor = result.get("meta", {}).get("cursor"))
NextCursor(previous, told) == told

HasNextPageFlagOnly(resp) == resp.hasNextPage

\* if page_info.get("hasNextPage") and page_info.get("endCursor")
HasNextPage(resp) == resp.hasNextPage /\ resp.endCursor # 0

NotNodesIgnored(nodes) == FALSE

\* if not nodes: break (if not issues: break)
NotNodes(nodes) == nodes = <<>>

ExtendAssigns(acc, nodes) == nodes

\* all_issues.extend(nodes)
Extend(acc, nodes) == acc \o nodes

\* the first lines of fetch_all_closed_tickets, up to the first request of
\* fetch_closed_issues
LinearStart ==
    /\ pc = "idle"
    /\ exporter = "linear"
    /\ end_date' = now
    /\ start_date' = now - days_back
    /\ all_issues' = <<>>
    /\ cursor' = 0
    /\ pc' = "query"
    /\ UNCHANGED <<mainVars, argVars, now, issue_filter, filtered_issues,
                   current_end, searched, i, all_tickets, all_comments, comment_cursor,
                   result, listFetch, fetch, primaryError, chunkLog, failVars>>

\* os.environ.get("FETCH_ALL_STATES", "").lower() on the values tried
Lower(text) ==
    CASE text = "TRUE" -> "true"
      [] text = "Yes" -> "yes"
      [] OTHER -> text

\* fetch_all = ... .lower() in ("true", "1", "yes")
FetchAll(env) == Lower(env) \in {"true", "1", "yes"}

\* if team_id: neither None nor the empty string
TeamGiven(team) == team \notin {NoTeam, ""}

IssueFilterAnyState(cutoff_date, fetch_all, team) ==
    [updatedAt |-> <<cutoff_date>>,
     state |-> <<>>,
     team |-> IF TeamGiven(team) THEN <<team>> ELSE <<>>]

\* the issue_filter dict: "updatedAt": {"gte": cutoff_date}, "state":
\* {"type": {"in": [...]}} unless fetch_all, "team": {"id": {"eq": team_id}}
\* if a team is given; <<>> stands for a key that is absent
IssueFilter(cutoff_date, fetch_all, team) ==
    [updatedAt |-> <<cutoff_date>>,
     state |-> IF fetch_all THEN <<>> ELSE << {"completed", "canceled"} >>,
     team |-> IF TeamGiven(team) THEN <<team>> ELSE <<>>]

\* the first lines of fetch_closed_issues: the cutoff is computed from a
\* clock reading of its own and the filter is built
LinearFilter ==
    /\ pc = "query"
    /\ exporter = "linear"
    /\ LET cutoff_date == now - days_back
       IN issue_filter' = <<IssueFilter(cutoff_date, FetchAll(fetch_all_states),
                                       team_id)>>
    /\ pc' = "list"
    /\ UNCHANGED <<mainVars, argVars, now, start_date, end_date, listVars,
                   pylonListVars, i, all_tickets, commentVars, result,
                   primaryError, failVars>>

\* one turn of the while loop of fetch_closed_issues; an exception passes
\* through fetch_all_closed_tickets, which has no handler around the call
LinearListPage ==
    /\ pc = "list"
    /\ exporter = "linear"
    /\ \E resp \in LinearListResponses(MaxTickets - Len(listFetch.served)) :
        LET goesOn == /\ ~ExecuteQueryRaises(resp)
                      /\ ~NotNodes(resp.nodes)
                      /\ HasNextPage(resp)
        IN /\ goesOn => listFetch.pages + 1 < MaxPages
           /\ primaryError' = IF resp.kind # "ok" THEN "list" ELSE primaryError
           /\ reported' = IF ExecuteQueryRaises(resp)
                          THEN MainPrints(ExecuteQueryError(resp))
                          ELSE reported
           /\ IF ExecuteQueryRaises(resp)
              THEN /\ pc' = "raised"
                   /\ listFetch' = [listFetch EXCEPT
                                        !.sent = Append(@, cursor),
                                        !.failure = [kind |-> resp.kind,
                                                     errors |-> resp.errors],
                                        !.filters = @ \cup {issue_filter}]
                   /\ UNCHANGED <<all_issues, cursor, i>>
              ELSE /\ listFetch' = [served |-> listFetch.served \o resp.nodes,
                                    pages |-> listFetch.pages + 1,
                                    clean |-> listFetch.clean /\ resp.nodes # <<>>,
                                    more |-> AnnouncesNext(resp),
                                    sent |-> Append(listFetch.sent, cursor),
                                    told |-> IF goesOn THEN resp.endCursor
                                             ELSE 0,
                                    failure |-> NoFailure,
                                    filters |-> listFetch.filters
                                                \cup {issue_filter}]
                   /\ all_issues' = IF NotNodes(resp.nodes) THEN all_issues
                                    ELSE Extend(all_issues, resp.nodes)
                   /\ IF goesOn
                      THEN /\ cursor' = NextCursor(cursor, resp.endCursor)
                           /\ UNCHANGED <<pc, i>>
                      ELSE /\ pc' = "assemble"
                           /\ i' = 1
                           /\ UNCHANGED cursor
    /\ UNCHANGED <<output, argVars, dateVars, pylonListVars, all_tickets,
                   commentVars, result, failVars>>

(* ---------------------- Linear: fetch_issue_comments ------------------- *)
CommentResponses(room) ==
    {[kind |-> k, issue_null |-> FALSE, n |-> 0, hasNextPage |-> FALSE,
      endCursor |-> 0, errors |-> NoErrors] : k \in LinearKinds \ {"ok", "errors"}}
    \cup
    {[kind |-> "errors", issue_null |-> FALSE, n |-> 0, hasNextPage |-> FALSE,
      endCursor |-> 0, errors |-> es] : es \in ErrorArrays}
    \cup
    {[kind |-> "ok", issue_null |-> TRUE, n |-> 0, hasNextPage |-> FALSE,
      endCursor |-> 0, errors |-> NoErrors]}
    \cup
    {[kind |-> "ok", issue_null |-> FALSE, n |-> n, hasNextPage |-> h,
      endCursor |-> c, errors |-> NoErrors] :
        n \in 0..room, h \in BOOLEAN, c \in Cursors}

InsertTicket(tickets, rec) == <<rec>> \o tickets

\* all_tickets.append(complete_ticket)
AppendTicket(tickets, rec) == Append(tickets, rec)

LinearRecordUncounted(issue, comments, idx) ==
    [issue |-> issue, comments |-> comments, total_comments |-> 0,
     error |-> NoError, idx |-> idx]

\* the record of a ticket whose comments were fetched
LinearRecord(issue, comments, idx) ==
    [issue |-> issue, comments |-> comments, total_comments |-> Len(comments),
     error |-> NoError, idx |-> idx]

\* the record of a ticket whose comment fetch raised e
LinearErrorRecord(issue, e, idx) ==
    [issue |-> issue, comments |-> <<>>, total_comments |-> 0,
     error |-> e, idx |-> idx]

Uncaught(p) == "raised"

\* except Exception as e: inside the loop body; the run stays in the loop
Caught(p) == p

\* if not issue_id: continue
LinearSkip ==
    /\ pc = "assemble"
    /\ exporter = "linear"
    /\ i <= Len(all_issues)
    /\ all_issues[i].id = 0
    /\ i' = i + 1
    /\ UNCHANGED <<mainVars, argVars, dateVars, pc, listVars, pylonListVars, all_tickets,
                   commentVars, result, primaryError, failVars>>

\* one turn of the while loop of fetch_issue_comments for ticket i, and,
\* when the loop ends or raises, the rest of the loop body of
\* fetch_all_closed_tickets
LinearCommentPage ==
    /\ pc = "assemble"
    /\ exporter = "linear"
    /\ i <= Len(all_issues)
    /\ all_issues[i].id # 0
    /\ LET issue == all_issues[i]
           seen == IF fetch.idx = i THEN fetch ELSE [FreshFetch EXCEPT !.idx = i]
       IN \E resp \in CommentResponses(MaxComments - seen.served) :
           LET nodes == Numbered(seen.served, resp.n)
               acc == Extend(all_comments, nodes)
               goesOn == /\ ~ExecuteQueryRaises(resp)
                         /\ ~resp.issue_null
                         /\ ~NotNodes(nodes)
                         /\ HasNextPage(resp)
               returned == IF resp.issue_null \/ NotNodes(nodes)
                           THEN all_comments ELSE acc
           IN /\ goesOn => seen.pages + 1 < MaxPages
              /\ IF ExecuteQueryRaises(resp)
                 THEN /\ all_tickets' = AppendTicket(all_tickets,
                              LinearErrorRecord(issue, ExecuteQueryError(resp), i))
                      /\ failedConv' = failedConv \cup {i}
                      /\ fetch' = [seen EXCEPT !.returned = FALSE,
                                        !.sent = Append(@, comment_cursor),
                                        !.failure = [kind |-> resp.kind,
                                                     errors |-> resp.errors]]
                      /\ pc' = Caught(pc)
                 ELSE /\ fetch' = [idx |-> i,
                                   served |-> seen.served + resp.n,
                                   pages |-> seen.pages + 1,
                                   clean |-> seen.clean /\ ~resp.issue_null
                                             /\ resp.n > 0,
                                   more |-> IF resp.issue_null THEN seen.more
                                            ELSE AnnouncesNext(resp),
                                   returned |-> ~goesOn,
                                   sent |-> Append(seen.sent, comment_cursor),
                                   told |-> IF goesOn THEN resp.endCursor
                                            ELSE 0,
                                   failure |-> NoFailure]
                      /\ UNCHANGED <<failedConv, pc>>
                      /\ IF goesOn
                         THEN UNCHANGED all_tickets
                         ELSE all_tickets' = AppendTicket(all_tickets,
                                  LinearRecord(issue, returned, i))
              /\ IF goesOn
                 THEN /\ all_comments' = acc
                      /\ comment_cursor' =
                            NextCursor(comment_cursor, resp.endCursor)
                      /\ UNCHANGED i
                 ELSE /\ all_comments' = <<>>
                      /\ comment_cursor' = 0
                      /\ i' = i + 1
    /\ UNCHANGED <<mainVars, argVars, dateVars, listVars, pylonListVars, result,
                   primaryError, failedDetails>>

TotalListed(tickets) == Len(TicketList)

\* "total_tickets": len(all_tickets)
TotalTickets(tickets) == Len(tickets)

\* the lines after the loop: the result is built and returned
LinearResult ==
    /\ pc = "assemble"
    /\ exporter = "linear"
    /\ i > Len(all_issues)
    /\ LET fetched_at == FetchedAt(now, end_date)
       IN result' = << [metadata |-> [total_tickets |-> TotalTickets(all_tickets),
                                    date_range |-> [start |-> start_date,
                                                    end |-> end_date],
                                    fetched_at |-> fetched_at,
                                    days_back |-> days_back,
                                    source |-> "linear"],
                      tickets |-> all_tickets] >>
    /\ pc' = "done"
    /\ UNCHANGED <<mainVars, argVars, dateVars, listVars, pylonListVars, i, all_tickets,
                   commentVars, primaryError, failVars>>

(* ------------------------- Pylon: the requests ------------------------- *)
\* search_closed_issues_only, get_issues_in_range and get_issue_details raise
\* on a non-200 status, and when requests itself raises
PylonRaises(resp) == resp.kind # "ok"

PylonSearchResponses(room) ==
    {[kind |-> k, data |-> <<>>, cursor |-> 0] : k \in PylonKinds \ {"ok"}}
    \cup
    {[kind |-> "ok", data |-> d, cursor |-> c] :
        d \in SeqUpTo(PylonIssues, room), c \in Cursors}

\* get_issues_in_range reads no cursor
ChunkResponses(room) == {r \in PylonSearchResponses(room) : r.cursor = 0}

\* n is the number of messages the server holds for the ticket
MessageResponses ==
    {[kind |-> "exc", n |-> 0]}
    \cup
    {[kind |-> k, n |-> n] : k \in {"ok", "http"}, n \in 0..MaxComments}

\* get_issue_messages answers a non-200 status with the empty list
GetIssueMessages(resp) ==
    IF resp.kind # "ok" THEN <<>> ELSE Numbered(0, resp.n)

(* ------------------ Pylon: filter_issues_by_date_and_state ------------- *)
DateFields(issue) == <<issue.created_at, issue.updated_at, issue.closed_at>>

\* the first date field that is present, non-empty and parses
RECURSIVE FirstParsed(_)
FirstParsed(fields) ==
    IF fields = <<>> THEN NoDate
    ELSE IF Head(fields).kind \in {"naive", "aware"} THEN Head(fields)
    ELSE FirstParsed(Tail(fields))

IssueDate(issue) == FirstParsed(DateFields(issue))

FilterNeverRaises(issues, state) == FALSE

\* start_date <= issue_date <= end_date compares an aware datetime with the
\* naive bounds and raises TypeError, outside the try of the parsing
FilterRaises(issues, state) ==
    \E k \in 1..Len(issues) :
        /\ issues[k].state = state
        /\ IssueDate(issues[k]).kind = "aware"

InWindow(issue, sd, ed) ==
    /\ IssueDate(issue).kind = "naive"
    /\ sd <= IssueDate(issue).day
    /\ IssueDate(issue).day <= ed

Keeps(issue, sd, ed, state) == issue.state = state /\ InWindow(issue, sd, ed)

FilterIssuesByDateAndState(issues, sd, ed, state) ==
    SelectSeq(issues, LAMBDA x : Keeps(x, sd, ed, state))

(* ------------------- Pylon: fetch_all_closed_tickets ------------------- *)
\* closed_in_chunk
ClosedInChunk(chunk_issues) ==
    SelectSeq(chunk_issues, LAMBDA x : x.state = "closed")

CurrentStartUnclamped(sd, ce) == ce - ChunkDays

\* max(start_date, current_end - timedelta(days=30))
CurrentStart(sd, ce) == Max(sd, ce - ChunkDays)

ChunkLoopRunsAtStart(ce, sd) == ce >= sd

\* while current_end > start_date
ChunkLoopRuns(ce, sd) == ce > sd

PylonRecord(issue, messages, idx) ==
    [issue |-> issue, comments |-> messages, total_comments |-> Len(messages),
     error |-> NoError, idx |-> idx]

\* the number of raw issues the chunk requests were answered with
RECURSIVE ChunkServed(_)
ChunkServed(log) ==
    IF log = <<>> THEN 0 ELSE Len(Head(log).data) + ChunkServed(Tail(log))

PylonStart ==
    /\ pc = "idle"
    /\ exporter = "pylon"
    /\ end_date' = now
    /\ start_date' = now - days_back
    /\ all_issues' = <<>>
    /\ cursor' = 0
    /\ pc' = "search"
    /\ UNCHANGED <<mainVars, argVars, now, issue_filter, filtered_issues,
                   current_end, searched, i, all_tickets, all_comments, comment_cursor,
                   result, listFetch, fetch, primaryError, chunkLog, failVars>>

SearchPropagates(why) ==
    /\ primaryError' = why
    /\ pc' = "raised"
    /\ UNCHANGED <<all_issues, cursor, listFetch, filtered_issues, current_end, i>>

\* except Exception as e: around the search and the filter; what the search
\* returned is dropped and the chunk loop is entered
SearchFailed(why) ==
    /\ primaryError' = why
    /\ all_issues' = <<>>
    /\ cursor' = 0
    /\ listFetch' = FreshListFetch
    /\ filtered_issues' = <<>>
    /\ current_end' = end_date
    /\ IF ChunkLoopRuns(end_date, start_date)
       THEN pc' = "chunks" /\ UNCHANGED i
       ELSE pc' = "assemble" /\ i' = 1

ChunksAnyway(issues) ==
    /\ filtered_issues' = issues
    /\ current_end' = end_date
    /\ IF ChunkLoopRuns(end_date, start_date)
       THEN pc' = "chunks" /\ UNCHANGED i
       ELSE pc' = "assemble" /\ i' = 1

\* the try block has ended without exception: the except branch with the
\* chunk loop is skipped and the filtered list goes to the assembly loop
SearchSucceeded(issues) ==
    /\ filtered_issues' = issues
    /\ pc' = "assemble"
    /\ i' = 1
    /\ UNCHANGED current_end

\* one turn of the while loop of search_closed_issues_only and, when the
\* loop ends, the filtering of its result
PylonSearchPage ==
    /\ pc = "search"
    /\ exporter = "pylon"
    /\ \E resp \in PylonSearchResponses(MaxTickets - Len(listFetch.served)) :
        LET goesOn == /\ ~PylonRaises(resp)
                      /\ ~NotNodes(resp.data)
                      /\ resp.cursor # 0
            acc == IF NotNodes(resp.data) THEN all_issues
                   ELSE Extend(all_issues, resp.data)
            served == [served |-> listFetch.served \o resp.data,
                       pages |-> listFetch.pages + 1,
                       clean |-> listFetch.clean /\ resp.data # <<>>,
                       more |-> resp.cursor # 0,
                       sent |-> Append(listFetch.sent, cursor),
                       told |-> IF goesOn THEN resp.cursor ELSE 0,
                       failure |-> NoFailure,
                       filters |-> {}]
        IN /\ goesOn => listFetch.pages + 1 < MaxPages
           /\ searched' = IF resp.kind = "ok" /\ ~goesOn THEN <<acc>>
                           ELSE searched
           /\ IF PylonRaises(resp)
              THEN SearchFailed("search")
              ELSE IF goesOn
              THEN /\ listFetch' = served
                   /\ all_issues' = acc
                   /\ cursor' = NextCursor(cursor, resp.cursor)
                   /\ UNCHANGED <<pc, i, primaryError, filtered_issues,
                                  current_end>>
              ELSE IF FilterRaises(acc, state_arg)
              THEN SearchFailed("filter")
              ELSE /\ listFetch' = served
                   /\ all_issues' = acc
                   /\ SearchSucceeded(
                         FilterIssuesByDateAndState(
                             acc, start_date, end_date, state_arg))
                   /\ UNCHANGED <<cursor, primaryError>>
    /\ UNCHANGED <<mainVars, argVars, dateVars, chunkLog, all_tickets, commentVars,
                   result, failVars>>

\* one turn of the chunk loop: the chunk is requested; an error is printed
\* and the loop goes on with the next chunk
PylonChunk ==
    /\ pc = "chunks"
    /\ exporter = "pylon"
    /\ LET current_start == CurrentStart(start_date, current_end)
       IN /\ \E resp \in ChunkResponses(MaxTickets - ChunkServed(chunkLog)) :
               /\ filtered_issues' =
                     IF PylonRaises(resp) THEN filtered_issues
                     ELSE Extend(filtered_issues, ClosedInChunk(resp.data))
               /\ chunkLog' = Append(chunkLog,
                                  [start |-> current_start, end |-> current_end,
                                   ok |-> resp.kind = "ok",
                                   data |-> resp.data])
          /\ current_end' = current_start
          /\ IF ChunkLoopRuns(current_start, start_date)
             THEN UNCHANGED <<pc, i>>
             ELSE pc' = "assemble" /\ i' = 1
    /\ UNCHANGED <<mainVars, argVars, dateVars, listVars, searched, all_tickets,
                   commentVars, result, primaryError, failVars>>

\* if not issue_id: continue
PylonSkip ==
    /\ pc = "assemble"
    /\ exporter = "pylon"
    /\ i <= Len(filtered_issues)
    /\ filtered_issues[i].id = 0
    /\ i' = i + 1
    /\ UNCHANGED <<mainVars, argVars, dateVars, pc, listVars, pylonListVars, all_tickets,
                   commentVars, result, primaryError, failVars>>

\* get_issue_details for ticket i; when it raises, the except branch of the
\* loop body prints the error and goes on with the next ticket
ReenterChunks(p) == "chunks"

\* except Exception as e: print(...); continue, inside the assembly loop
ContinueLoop(p) == p

PylonDetails ==
    /\ pc = "assemble"
    /\ exporter = "pylon"
    /\ i <= Len(filtered_issues)
    /\ filtered_issues[i].id # 0
    /\ \E kind \in PylonKinds :
        IF PylonRaises([kind |-> kind])
        THEN /\ i' = i + 1
             /\ failedDetails' = failedDetails \cup {i}
             /\ pc' = ContinueLoop(pc)
        ELSE /\ pc' = "messages"
             /\ UNCHANGED <<i, failedDetails>>
    /\ UNCHANGED <<mainVars, argVars, dateVars, listVars, pylonListVars, all_tickets,
                   commentVars, result, primaryError, failedConv>>

\* get_issue_messages for ticket i and the rest of the loop body; when
\* requests raises, the except branch goes on with the next ticket
PylonMessages ==
    /\ pc = "messages"
    /\ exporter = "pylon"
    /\ \E resp \in MessageResponses :
        /\ fetch' = [idx |-> i, served |-> resp.n, pages |-> 1,
                     clean |-> resp.kind = "ok" /\ resp.n > 0, more |-> FALSE,
                     returned |-> resp.kind # "exc", sent |-> <<0>>,
                     told |-> 0, failure |-> NoFailure]
        /\ failedConv' = IF resp.kind = "ok" THEN failedConv
                         ELSE failedConv \cup {i}
        /\ all_tickets' =
              IF resp.kind = "exc" THEN all_tickets
              ELSE AppendTicket(all_tickets,
                       PylonRecord(filtered_issues[i], GetIssueMessages(resp), i))
    /\ i' = i + 1
    /\ pc' = "assemble"
    /\ UNCHANGED <<mainVars, argVars, dateVars, listVars, pylonListVars, all_comments,
                   comment_cursor, result, primaryError, failedDetails>>

\* the lines after the loop: the result is built and returned
PylonResult ==
    /\ pc = "assemble"
    /\ exporter = "pylon"
    /\ i > Len(filtered_issues)
    /\ LET fetched_at == FetchedAt(now, end_date)
       IN result' = << [metadata |-> [total_tickets |-> TotalTickets(all_tickets),
                                    date_range |-> [start |-> start_date,
                                                    end |-> end_date],
                                    fetched_at |-> fetched_at,
                                    days_back |-> days_back,
                                    source |-> "absent"],
                      tickets |-> all_tickets] >>
    /\ pc' = "done"
    /\ UNCHANGED <<mainVars, argVars, dateVars, listVars, pylonListVars, i, all_tickets,
                   commentVars, primaryError, failVars>>

(* ------------------- fetch_closed_issues, every mode -------------------- *)
\* a Linear run with any value of FETCH_ALL_STATES and of team_id
QueryInit ==
    /\ exporter = "linear"
    /\ days_back = ChunkDays
    /\ state_arg = "closed"
    /\ team_id \in TeamValues
    /\ fetch_all_states \in EnvValues
    /\ pc = "idle"
    /\ now = Today
    /\ start_date = 0
    /\ end_date = 0
    /\ issue_filter = <<>>
    /\ all_issues = <<>>
    /\ cursor = 0
    /\ filtered_issues = <<>>
    /\ current_end = 0
    /\ i = 0
    /\ all_tickets = <<>>
    /\ all_comments = <<>>
    /\ comment_cursor = 0
    /\ result = <<>>
    /\ listFetch = FreshListFetch
    /\ fetch = FreshFetch
    /\ primaryError = "none"
    /\ chunkLog = <<>>
    /\ searched = <<>>
    /\ failedDetails = {}
    /\ failedConv = {}
    /\ reported = <<>>
    /\ output = <<>>

\* the run up to the return of fetch_closed_issues
QueryNext ==
    \/ LinearStart
    \/ LinearFilter
    \/ LinearListPage
    \/ Tick

QuerySpec == QueryInit /\ [][QueryNext]_vars

(* ------------------- the chunked scan, every window -------------------- *)
\* the days_back arguments tried: negative, zero, one day, and the values
\* around one, two and three chunks
ChunkDaysBack ==
    {-1, 0, 1, ChunkDays - 1, ChunkDays, ChunkDays + 1, 2 * ChunkDays,
     2 * ChunkDays + 1, 3 * ChunkDays}

\* a Pylon run with any of these windows
ChunkInit ==
    /\ exporter = "pylon"
    /\ days_back \in ChunkDaysBack
    /\ state_arg = "closed"
    /\ team_id = NoTeam
    /\ fetch_all_states = ""
    /\ pc = "idle"
    /\ now = Today
    /\ start_date = 0
    /\ end_date = 0
    /\ issue_filter = <<>>
    /\ all_issues = <<>>
    /\ cursor = 0
    /\ filtered_issues = <<>>
    /\ current_end = 0
    /\ i = 0
    /\ all_tickets = <<>>
    /\ all_comments = <<>>
    /\ comment_cursor = 0
    /\ result = <<>>
    /\ listFetch = FreshListFetch
    /\ fetch = FreshFetch
    /\ primaryError = "none"
    /\ chunkLog = <<>>
    /\ searched = <<>>
    /\ failedDetails = {}
    /\ failedConv = {}
    /\ reported = <<>>
    /\ output = <<>>

\* the run up to the start of the assembly loop
ChunkNext ==
    \/ PylonStart
    \/ PylonSearchPage
    \/ PylonChunk

ChunkSpec == ChunkInit /\ [][ChunkNext]_vars

(* ----------- filter_issues_by_date_and_state, called alone ------------- *)
\* the date fields the filter is tried on: missing, unparseable, on and just
\* outside the ends of the window, with and without offset
CreatedValues(sd, ed) ==
    {NoDate, BadDate, Naive(sd), Naive(ed), Naive(sd - 1), Naive(ed + 1),
     Aware(ed)}
UpdatedValues(sd, ed) == {NoDate, Naive(ed), Naive(sd - 1), Aware(sd)}
ClosedValues(sd, ed) == {NoDate, Naive(sd)}

FilterInputs(sd, ed) ==
    {Issue(1, st, c, u, cl) :
        st \in {"closed", "open"}, c \in CreatedValues(sd, ed),
        u \in UpdatedValues(sd, ed), cl \in ClosedValues(sd, ed)}

\* a call of filter_issues_by_date_and_state(issues, start_date, end_date,
\* state) on a list of up to two issues
FilterInit ==
    /\ exporter = "pylon"
    /\ days_back = ChunkDays + 15
    /\ state_arg \in {"closed", "open"}
    /\ pc = "filter"
    /\ team_id = NoTeam
    /\ fetch_all_states = ""
    /\ now = Today
    /\ start_date = now - days_back
    /\ end_date = now
    /\ issue_filter = <<>>
    /\ all_issues \in SeqUpTo(FilterInputs(start_date, end_date), 2)
    /\ cursor = 0
    /\ filtered_issues = <<>>
    /\ current_end = 0
    /\ i = 0
    /\ all_tickets = <<>>
    /\ all_comments = <<>>
    /\ comment_cursor = 0
    /\ result = <<>>
    /\ listFetch = FreshListFetch
    /\ fetch = FreshFetch
    /\ primaryError = "none"
    /\ chunkLog = <<>>
    /\ searched = <<>>
    /\ failedDetails = {}
    /\ failedConv = {}
    /\ reported = <<>>
    /\ output = <<>>

\* the body of filter_issues_by_date_and_state: it returns the filtered list
\* or raises the TypeError of the comparison
FilterCall ==
    /\ pc = "filter"
    /\ IF FilterRaises(all_issues, state_arg)
       THEN /\ pc' = "filter_raised"
            /\ UNCHANGED filtered_issues
       ELSE /\ pc' = "filter_returned"
            /\ filtered_issues' = FilterIssuesByDateAndState(
                                      all_issues, start_date, end_date, state_arg)
    /\ UNCHANGED <<mainVars, argVars, dateVars, listVars, current_end, chunkLog,
                   searched, i, all_tickets, commentVars, result, primaryError, failVars>>

FilterSpec == FilterInit /\ [][FilterCall]_vars

(* -------------------------------- main --------------------------------- *)
SaveReachedAnyway == pc \in {"done", "raised"}

\* main comes to the save only when fetch_all_closed_tickets has returned:
\* an exception of it leaves the try block before
SaveReached == pc = "done"

\* the lines of main after fetch_all_closed_tickets has returned: the file is
\* opened and the result is dumped into it; when that raises, the except
\* branch of main prints the error
MainSave ==
    /\ SaveReached
    /\ \E kind \in DumpKinds :
        IF kind = "ok"
        THEN /\ output' = <<Written(result)>>
             /\ UNCHANGED reported
        ELSE /\ output' = <<Truncated>>
             /\ reported' = MainPrints(ErrorText(kind))
    /\ pc' = "saved"
    /\ UNCHANGED <<argVars, dateVars, listVars, pylonListVars, i, all_tickets,
                   commentVars, result, primaryError, failVars>>

(* --------------------------- specification ----------------------------- *)
Next ==
    \/ LinearStart
    \/ LinearFilter
    \/ LinearListPage
    \/ LinearSkip
    \/ LinearCommentPage
    \/ LinearResult
    \/ PylonStart
    \/ PylonSearchPage
    \/ PylonChunk
    \/ PylonSkip
    \/ PylonDetails
    \/ PylonMessages
    \/ PylonResult
    \/ MainSave
    \/ Tick

Spec == Init /\ [][Next]_vars

\* the run is one sequential thread: a step that can be taken is taken
FairSpec == Spec /\ WF_vars(Next)

TypeOK ==
    /\ pc \in {"idle", "query", "list", "search", "chunks", "assemble", "messages",
               "done", "saved", "raised"}
    /\ Len(result) \in {0, 1}
    /\ i \in 0..(MaxTickets + 1)
    /\ cursor \in Cursors
    /\ comment_cursor \in Cursors

(* ------------------------------ properties ----------------------------- *)
Last(seq) == seq[Len(seq)]

RecordIdx == {all_tickets[n].idx : n \in 1..Len(all_tickets)}

Failed == failedDetails \cup failedConv

\* the list positions that hold a ticket with an identifier
WithId == {k \in 1..Len(TicketList) : TicketList[k].id # 0}

\* C1: pagination completeness. When a pagination has ended without an error
\* and every page the server served held at least one item, what it returns
\* is the concatenation of all pages served, in order, and the last page is
\* one that announces no next page: for the ticket list of either exporter
\* (fetch_closed_issues, search_closed_issues_only) and for the comments of
\* one Linear ticket (fetch_issue_comments).
C1_PaginationCompleteness ==
    /\ (pc \in {"assemble", "messages", "done", "saved"} /\ listFetch.pages > 0
            /\ listFetch.clean)
        => (all_issues = listFetch.served /\ ~listFetch.more)
    /\ (exporter = "linear" /\ fetch.returned /\ fetch.clean)
        => /\ all_tickets # <<>>
           /\ Last(all_tickets).idx = fetch.idx
           /\ Last(all_tickets).error = NoError
           /\ Last(all_tickets).comments = Numbered(0, fetch.served)
           /\ ~fetch.more

\* a Linear run whose ticket list came on two full pages and whose last
\* ticket had its comments on two full pages
C1_Witness ==
    /\ exporter = "linear"
    /\ pc = "done"
    /\ listFetch.clean
    /\ listFetch.pages >= 2
    /\ Len(all_issues) >= 2
    /\ fetch.returned
    /\ fetch.clean
    /\ fetch.pages >= 2
    /\ Len(Last(all_tickets).comments) >= 2

\* C2: whenever the conversation fetch for a ticket fails, the error does not
\* reach the caller and the ticket gets a record with an empty conversation,
\* count 0 and an error marker; the records of the other tickets have no
\* error marker and a count equal to the length of their conversation.
C2_AssemblyFailureRecord ==
    /\ failedConv # {} => pc # "raised"
    /\ \A k \in failedConv :
          \E n \in 1..Len(all_tickets) :
              /\ all_tickets[n].idx = k
              /\ all_tickets[n].comments = <<>>
              /\ all_tickets[n].total_comments = 0
              /\ all_tickets[n].error # NoError
    /\ \A n \in 1..Len(all_tickets) :
          all_tickets[n].idx \notin failedConv
              => /\ all_tickets[n].error = NoError
                 /\ all_tickets[n].total_comments = Len(all_tickets[n].comments)

\* C3: the final result holds exactly one record for every ticket of the
\* filtered list that has an identifier, total_tickets is the number of these
\* tickets, and the records carrying an error are as many as the tickets
\* whose nested fetch failed.
C3_NoTicketDropped ==
    pc = "done" =>
        LET recs == result[1].tickets
        IN /\ \A k \in WithId :
                 Cardinality({n \in 1..Len(recs) : recs[n].idx = k}) = 1
           /\ result[1].metadata.total_tickets = Cardinality(WithId)
           /\ Cardinality({n \in 1..Len(recs) : recs[n].error # NoError})
                 = Cardinality(Failed)

\* every ticket with an identifier has been tried: it has a record or its
\* nested fetch failed
AllAttempted == \A k \in WithId : k \in RecordIdx \cup Failed

\* C4: a per-ticket failure never aborts the run. Once the nested fetch of a
\* ticket has failed the run never raises to the caller, and it goes on to a
\* state where every ticket of the list has been tried and the result has
\* been returned.
C4_FailureDoesNotAbort ==
    /\ [](Failed # {} => pc # "raised")
    /\ (Failed # {}) ~> (pc \in {"done", "saved"} /\ Len(result) = 1
                            /\ AllAttempted)

\* a finished run in which a ticket failed and a later ticket got its record
C4_Witness ==
    /\ pc = "done"
    /\ \E k \in Failed :
          \E n \in 1..Len(all_tickets) :
              all_tickets[n].idx > k /\ all_tickets[n].error = NoError

\* C5: a record has an error marker if and only if the conversation retrieval
\* for its ticket failed.
C5_MarkerIffFailed ==
    \A n \in 1..Len(all_tickets) :
        (all_tickets[n].error # NoError) <=> (all_tickets[n].idx \in failedConv)

\* C6: a record without an error marker holds every conversation item the
\* server has for its ticket: as many items as the server held on the pages
\* it was asked for, and no further page announced.
C6_ConversationInFull ==
    (all_tickets # <<>> /\ fetch.returned
        /\ Last(all_tickets).idx = fetch.idx
        /\ Last(all_tickets).error = NoError)
    => (Len(Last(all_tickets).comments) = fetch.served /\ ~fetch.more)

\* C7: the ticket identifiers of the records of one result are pairwise
\* different.
C7_UniqueIdentifiers ==
    pc = "done" =>
        LET recs == result[1].tickets
        IN \A a, b \in 1..Len(recs) :
              a # b => recs[a].issue.id # recs[b].issue.id

\* C8: when the primary strategy has raised and a chunk fetch raises too, the
\* run produces no result.
C8_ChunkFailureIsFatal ==
    (primaryError = "search" /\ \E k \in 1..Len(chunkLog) : ~chunkLog[k].ok)
        => (pc # "done" /\ result = <<>>)

AllChunksOk == \A k \in 1..Len(chunkLog) : chunkLog[k].ok

PassesStateAndDate(x) ==
    /\ x.state = "closed"
    /\ IssueDate(x).kind \in {"naive", "aware"}
    /\ start_date <= IssueDate(x).day
    /\ IssueDate(x).day <= end_date

\* the number of chunk-scan records that pass the filter on state and date
RECURSIVE ChunkPassing(_)
ChunkPassing(log) ==
    IF log = <<>> THEN 0
    ELSE Len(SelectSeq(Head(log).data, PassesStateAndDate))
         + ChunkPassing(Tail(log))

\* C10: when the primary strategy raised, total_tickets of the result is the
\* number of chunk-scan records that pass the filter on state (closed) and
\* date (inside the window). Stated for the runs in which no ticket lacks its
\* identifier and no nested fetch failed, so that every ticket of the list
\* is counted.
C10_TotalAfterFallback ==
    (pc = "done" /\ primaryError # "none" /\ Failed = {}
        /\ WithId = 1..Len(TicketList))
        => result[1].metadata.total_tickets = ChunkPassing(chunkLog)

\* the cursors are pairwise different
NoRepeat(sent) ==
    \A a, b \in 1..Len(sent) : a # b => sent[a] # sent[b]

C12_EmptyPageTermination ==
    /\ [](~listFetch.clean
            => /\ pc \in {"assemble", "messages", "done", "saved"}
               /\ all_issues = listFetch.served)
    /\ []((exporter = "linear" /\ ~fetch.clean)
            => /\ fetch.returned
               /\ \E n \in 1..Len(all_tickets) :
                     /\ all_tickets[n].idx = fetch.idx
                     /\ all_tickets[n].error = NoError
                     /\ all_tickets[n].comments = Numbered(0, fetch.served))
    /\ [][~listFetch.clean => listFetch' = listFetch]_vars
    /\ [][(exporter = "linear" /\ ~fetch.clean /\ fetch'.idx = fetch.idx)
            => fetch' = fetch]_vars

\* a finished Linear run whose second list page was empty and announced a
\* next page, and whose last comment fetch ended on such a page too
C12_Witness ==
    /\ exporter = "linear"
    /\ pc = "done"
    /\ listFetch.pages = 2
    /\ ~listFetch.clean
    /\ listFetch.more
    /\ all_issues # <<>>
    /\ fetch.pages = 2
    /\ ~fetch.clean
    /\ fetch.more
    /\ fetch.served > 0

\* the closed issues of the chunks answered so far, in the order of the chunks
RECURSIVE ChunkClosed(_)
ChunkClosed(log) ==
    IF log = <<>> THEN <<>>
    ELSE ClosedInChunk(Head(log).data) \o ChunkClosed(Tail(log))

\* C13: an error on any page of the ticket-list pagination aborts the whole
\* pagination and reaches the caller of the paginator, and the items of the
\* pages fetched before it are not returned. In the Linear orchestrator the
\* run raises and yields no result and no record; in the Pylon orchestrator
\* the list is dropped, and the tickets assembled are those of the chunked
\* scan alone.
C13_ListErrorAbortsPagination ==
    /\ primaryError = "list"
          => (pc = "raised" /\ result = <<>> /\ all_tickets = <<>>)
    /\ primaryError = "search"
          => (all_issues = <<>> /\ filtered_issues = ChunkClosed(chunkLog))

\* a Linear run whose list request failed after a page with items had come in
C13_Witness ==
    /\ exporter = "linear"
    /\ primaryError = "list"
    /\ listFetch.pages >= 1
    /\ listFetch.served # <<>>
    /\ Len(listFetch.sent) = listFetch.pages + 1

\* C14: ordering preserved. The records stand in the order of their tickets
\* in the filtered list, whichever tickets succeeded, failed or were skipped:
\* the list positions of the records increase strictly, and every record
\* holds the list item of its position.
C14_OrderingPreserved ==
    /\ \A a, b \in 1..Len(all_tickets) :
          a < b => all_tickets[a].idx < all_tickets[b].idx
    /\ \A n \in 1..Len(all_tickets) :
          /\ all_tickets[n].idx \in 1..Len(TicketList)
          /\ all_tickets[n].issue = TicketList[all_tickets[n].idx]
    /\ pc = "done" => result[1].tickets = all_tickets

\* a finished run with the record of a failed ticket before the record of a
\* ticket that succeeded
C14_Witness ==
    /\ pc = "done"
    /\ Len(result[1].tickets) = 2
    /\ result[1].tickets[1].error # NoError
    /\ result[1].tickets[2].error = NoError
    /\ result[1].tickets[1].issue # result[1].tickets[2].issue

\* the list positions that hold an item without identifier
WithoutId == (1..Len(TicketList)) \ WithId

\* C15: malformed record exclusion. An item of the list without identifier
\* is left out silently: it gets no record, no nested fetch is issued for
\* it, the run is not aborted, and the result of a list with k such items is
\* k tickets shorter than the list.
C15_MalformedExclusion ==
    /\ \A n \in 1..Len(all_tickets) : all_tickets[n].idx \notin WithoutId
    /\ Failed \cap WithoutId = {}
    /\ fetch.idx \notin WithoutId
    /\ (pc = "done" /\ WithoutId # {})
          => Len(result[1].tickets) = Len(TicketList) - Cardinality(WithoutId)

\* C16: in every result returned, metadata.total_tickets is the length of
\* the tickets sequence.
C16_TotalIsLength ==
    pc = "done" => result[1].metadata.total_tickets = Len(result[1].tickets)

\* a result with a record, made from a list that is longer than the result
C16_Witness ==
    /\ pc = "done"
    /\ Len(result[1].tickets) >= 1
    /\ Len(TicketList) > Len(result[1].tickets)

\* the text names the phase
Names(text, phase) == \E k \in 1..Len(text) : text[k] = phase

\* C17: a fatal error aborts the run and the error that reaches the user
\* names the phase that failed. When the ticket-list fetch of the Linear
\* exporter has raised, the run is aborted and what main prints names the
\* list fetch; when a chunk fetch of the Pylon exporter has raised, the run is
\* aborted and what main prints names the chunk fetch.
C17_FatalErrorNamesPhase ==
    /\ primaryError = "list"
          => (pc = "raised" /\ Names(reported, "list-fetch"))
    /\ (\E k \in 1..Len(chunkLog) : ~chunkLog[k].ok)
          => (pc = "raised" /\ Names(reported, "chunk-fetch"))

\* C18: the output is all or nothing. The output file is touched only after
\* the complete result has been built and returned, what is dumped into it
\* is that result, and a run that was aborted has no output file.
C18_OutputAllOrNothing ==
    /\ output # <<>> => (pc = "saved" /\ Len(result) = 1)
    /\ (output # <<>> /\ reported = <<>>)
          => (output[1].complete /\ output[1].data = result)
    /\ pc = "raised" => output = <<>>
    /\ reported # <<>> => output \in {<<>>, <<Truncated>>}

\* a run that has written its result, with a record, into the file
C18_Witness ==
    /\ pc = "saved"
    /\ output = <<Written(result)>>
    /\ result[1].tickets # <<>>

\* C19: the chunked scan is tried only after the primary strategy raised. A
\* chunk request is issued only in a run whose primary strategy has raised
\* before, and a run whose primary strategy ended without error issues no
\* chunk request and assembles the filtered result of the search alone.
C19_ChunksOnlyAfterPrimaryRaised ==
    /\ []((chunkLog # <<>> \/ pc = "chunks")
            => primaryError \in {"search", "filter"})
    /\ [][chunkLog' # chunkLog => primaryError \in {"search", "filter"}]_vars
    /\ []((exporter = "pylon" /\ primaryError = "none"
            /\ pc \in {"assemble", "messages", "done", "saved"})
            => /\ chunkLog = <<>>
               /\ filtered_issues = FilterIssuesByDateAndState(
                      all_issues, start_date, end_date, "closed"))

\* a Pylon run whose filter raised and whose chunks were fetched then, and
\* which has assembled a ticket of a chunk
C19_Witness ==
    /\ exporter = "pylon"
    /\ primaryError = "filter"
    /\ Len(chunkLog) = 2
    /\ pc = "saved"
    /\ all_tickets # <<>>

\* C20: every chunk handed to get_issues_in_range is non-empty, spans at
\* most 30 days and lies inside the window:
\* current_start < current_end, current_end - current_start <= 30 days,
\* start_date <= current_start and current_end <= end_date.
C20_ChunkBounds ==
    \A k \in 1..Len(chunkLog) :
        /\ chunkLog[k].start < chunkLog[k].end
        /\ chunkLog[k].end - chunkLog[k].start <= ChunkDays
        /\ start_date <= chunkLog[k].start
        /\ chunkLog[k].end <= end_date

\* a scan of two chunks: a full one of 30 days and one cut at start_date
C20_Witness ==
    /\ Len(chunkLog) = 2
    /\ chunkLog[1].end = end_date
    /\ chunkLog[1].end - chunkLog[1].start = ChunkDays
    /\ chunkLog[2].start = start_date
    /\ chunkLog[2].end - chunkLog[2].start < ChunkDays

\* the first of created_at, updated_at, closed_at that parses
FirstParseable(x) ==
    IF x.created_at.kind \in {"naive", "aware"} THEN x.created_at
    ELSE IF x.updated_at.kind \in {"naive", "aware"} THEN x.updated_at
    ELSE IF x.closed_at.kind \in {"naive", "aware"} THEN x.closed_at
    ELSE NoDate

\* the issue has the requested state and a date inside the window
Wanted(x) ==
    /\ x.state = state_arg
    /\ FirstParseable(x) # NoDate
    /\ start_date <= FirstParseable(x).day
    /\ FirstParseable(x).day <= end_date

\* C21: filter_issues_by_date_and_state returns, in input order, exactly the
\* issues whose state is the requested one and whose date, the first of
\* created_at, updated_at, closed_at that parses, lies in
\* [start_date, end_date].
C21_FilterExact ==
    pc \in {"filter_returned", "filter_raised"}
        => /\ pc = "filter_returned"
           /\ filtered_issues = SelectSeq(all_issues, Wanted)

\* the conversation fetch for the ticket the loop stands at, before the step
FetchBefore == IF fetch.idx = i THEN fetch ELSE FreshFetch

\* C22: a pagination goes on after a page if and only if the page held an
\* item and the response announced a next page and told a non-empty cursor
\* (for the Pylon search, whose response has no other signal, told a
\* non-empty cursor): for every page served to the ticket-list pagination of
\* either exporter and to the comment pagination of the Linear exporter.
C22_ContinuesIffAnnounced ==
    /\ [][(pc \in {"list", "search"}
            /\ listFetch'.pages = listFetch.pages + 1)
           => (pc' = pc <=> (/\ Len(listFetch'.served) > Len(listFetch.served)
                             /\ listFetch'.more))]_vars
    /\ [][(exporter = "linear" /\ pc = "assemble"
            /\ fetch'.pages = FetchBefore.pages + 1)
           => (~fetch'.returned <=> (/\ fetch'.served > FetchBefore.served
                                     /\ fetch'.more))]_vars

\* both paginations of a Linear run went on after their first page and
\* stopped after the second, which held an item as well
C22_Witness ==
    /\ exporter = "linear"
    /\ pc = "done"
    /\ listFetch.pages = 2
    /\ listFetch.clean
    /\ ~listFetch.more
    /\ fetch.pages = 2
    /\ fetch.clean
    /\ ~fetch.more
    /\ fetch.returned

\* C23: the first request of every pagination carries no cursor, and each
\* later request carries the cursor that came with the page before it: for
\* the ticket-list pagination of either exporter and, ticket by ticket, for
\* the comment pagination of the Linear exporter.
C23_CursorChaining ==
    /\ [][Len(listFetch'.sent) = Len(listFetch.sent) + 1
           => Last(listFetch'.sent) = IF listFetch.sent = <<>> THEN 0
                                      ELSE listFetch.told]_vars
    /\ [][(/\ exporter = "linear"
            /\ pc = "assemble"
            /\ fetch'.idx = i
            /\ Len(fetch'.sent) = Len(FetchBefore.sent) + 1)
           => Last(fetch'.sent) = IF FetchBefore.sent = <<>> THEN 0
                                  ELSE FetchBefore.told]_vars

\* the list pagination has chained two different cursors, and the comment
\* pagination of the second ticket started without one and chained two too
C23_Witness ==
    /\ exporter = "linear"
    /\ listFetch.sent = <<0, 2, 1>>
    /\ fetch.idx = 2
    /\ fetch.sent = <<0, 1, 2>>

\* C24: in every record, while the run assembles and in the result, the
\* stored count is the length of the stored conversation and the stored
\* ticket is the item of the ticket list at the record's position, unchanged;
\* a record whose conversation fetch did not fail has no failure marker; the
\* result holds the records as they were assembled.
C24_RecordShape ==
    /\ \A n \in 1..Len(all_tickets) :
          LET r == all_tickets[n]
          IN /\ r.total_comments = Len(r.comments)
             /\ r.idx \in 1..Len(TicketList)
             /\ r.issue = TicketList[r.idx]
             /\ r.idx \notin failedConv => r.error = NoError
    /\ pc \in {"done", "saved"} => result[1].tickets = all_tickets

\* a result whose second record has a conversation of two and no marker
C24_Witness ==
    /\ pc = "done"
    /\ Len(result[1].tickets) = 2
    /\ result[1].tickets[2].error = NoError
    /\ Len(result[1].tickets[2].comments) = 2
    /\ result[1].tickets[2].total_comments = 2

\* the messages of an "errors" array, each of whose entries has one, put
\* together with "; " between them
Concatenated(errors) ==
    IF Len(errors) = 1 THEN errors[1] ELSE errors[1] \o "; " \o errors[2]

HaveMessages(errors) == \A k \in 1..Len(errors) : errors[k] # NoMessage

\* C25: a 200 response with an "errors" array is treated as a failed request
\* is: the query raises and hands back no data, and the error raised carries
\* the messages of the array, concatenated. When the request was one of the
\* ticket-list pagination the run is aborted without result or record and
\* what main prints carries the messages; when it was one of a comment
\* pagination the run goes on, and the ticket's record has no comments and
\* an error marker that carries the messages.
C25_ErrorsArrayRaises ==
    /\ listFetch.failure.kind # "ok"
          => /\ pc = "raised"
             /\ result = <<>>
             /\ all_tickets = <<>>
             /\ (/\ listFetch.failure.kind = "errors"
                 /\ HaveMessages(listFetch.failure.errors))
                   => reported = MainPrints("GraphQL errors: "
                          \o Concatenated(listFetch.failure.errors))
    /\ (exporter = "linear" /\ fetch.failure.kind # "ok")
          => /\ pc # "raised"
             /\ all_tickets # <<>>
             /\ Last(all_tickets).idx = fetch.idx
             /\ Last(all_tickets).comments = <<>>
             /\ Last(all_tickets).total_comments = 0
             /\ Last(all_tickets).error # NoError
             /\ (/\ fetch.failure.kind = "errors"
                 /\ HaveMessages(fetch.failure.errors))
                   => Last(all_tickets).error =
                         "GraphQL errors: " \o Concatenated(fetch.failure.errors)

\* a run that has ended with a result after the second page of the comments
\* of its second ticket came back with an "errors" array of two messages
C25_Witness ==
    /\ pc = "done"
    /\ fetch.idx = 2
    /\ fetch.pages = 1
    /\ fetch.failure = [kind |-> "errors", errors |-> <<"m1", "m2">>]
    /\ Len(result[1].tickets) = 2
    /\ result[1].tickets[2].error = "GraphQL errors: m1; m2"

\* C26: the result's fetched_at is read once, when the result is built after
\* the last ticket has been processed, never when the run starts: it is the
\* clock's reading at the step that ends the assembly, so that the reported
\* end of the date range, read when the run started, is not later than it.
C26_FetchedAtAfterAssembly ==
    /\ [][(pc = "assemble" /\ pc' = "done")
           => /\ i > Len(TicketList)
              /\ result'[1].metadata.fetched_at = now
              /\ result'[1].metadata.date_range.end <= now]_vars
    /\ [][result # <<>> => result' = result]_vars

\* a result built after time had passed since the run started
C26_Witness ==
    /\ pc = "done"
    /\ Len(result[1].tickets) = 2
    /\ result[1].metadata.date_range.end < result[1].metadata.fetched_at

\* the phases of a run: idle; fetching and filtering the ticket list;
\* assembling the tickets; done; saved by main; aborted
PhaseOf(p) ==
    CASE p = "idle" -> 0
      [] p \in {"query", "list", "search", "chunks"} -> 1
      [] p \in {"assemble", "messages"} -> 2
      [] p = "done" -> 3
      [] p = "saved" -> 4
      [] OTHER -> 5

\* C27: a run goes through its phases in order: idle, fetching and filtering
\* the ticket list, assembling the tickets, done. No phase is entered a second
\* time or skipped, and only the list phase can abort the run. No
\* per-ticket request is issued and no record is made before the ticket list
\* is complete, and once the assembly has started no list or chunk request is
\* issued and the ticket list does not change.
C27_PhaseOrder ==
    /\ [][\/ PhaseOf(pc') \in {PhaseOf(pc), PhaseOf(pc) + 1}
           \/ (PhaseOf(pc) = 1 /\ pc' = "raised")]_vars
    /\ [][(fetch' # fetch \/ all_tickets' # all_tickets \/ failVars' # failVars)
           => PhaseOf(pc) = 2]_vars
    /\ [][PhaseOf(pc) >= 2
           => /\ listFetch' = listFetch
              /\ chunkLog' = chunkLog
              /\ TicketList' = TicketList]_vars

\* a Pylon run that went through the search, the chunked scan and the
\* assembly of two tickets, one of which failed, and is done
C27_Witness ==
    /\ exporter = "pylon"
    /\ pc = "done"
    /\ primaryError = "search"
    /\ Len(chunkLog) = 2
    /\ failedDetails = {1}
    /\ Len(all_tickets) = 1

\* the identifiers of the tickets of the list
ListedIds == {TicketList[k].id : k \in WithId}

\* C28: nothing is tried twice within one run. No chunk request that failed
\* is issued again with the same bounds; a ticket whose details or
\* conversation request failed is at no other position of the list, where
\* the same request would be issued again; and the result of a run holds
\* exactly one record for every ticket identifier of the list.
C28_NoRetries ==
    /\ \A a, b \in 1..Len(chunkLog) :
          (a # b /\ ~chunkLog[a].ok)
              => <<chunkLog[a].start, chunkLog[a].end>>
                    # <<chunkLog[b].start, chunkLog[b].end>>
    /\ pc = "done"
          => /\ \A a \in Failed : \A b \in WithId :
                    a # b => TicketList[a].id # TicketList[b].id
             /\ \A id \in ListedIds :
                    Cardinality({n \in 1..Len(result[1].tickets) :
                                    result[1].tickets[n].issue.id = id}) = 1

\* C29: the window is resolved once and applied as reported. The reported
\* start of the date range is days_back days before its reported end, and the
\* lower bound that selects the tickets is that reported start: the updatedAt
\* cutoff of the Linear list query, the lower bound of the Pylon filter, and
\* the start of the oldest chunk of the Pylon chunked scan, none of whose
\* chunks starts before it.
C29_WindowApplied ==
    /\ pc = "done"
          => /\ result[1].metadata.date_range.start = start_date
             /\ result[1].metadata.date_range.end = end_date
             /\ result[1].metadata.date_range.start
                   = result[1].metadata.date_range.end - days_back
    /\ issue_filter # <<>> => issue_filter[1].updatedAt = <<start_date>>
    /\ (exporter = "pylon" /\ primaryError = "none")
          => \A k \in 1..Len(filtered_issues) :
                FirstParseable(filtered_issues[k]).day >= start_date
    /\ \A k \in 1..Len(chunkLog) : chunkLog[k].start >= start_date
    /\ (chunkLog # <<>> /\ PhaseOf(pc) \in {2, 3, 4})
          => Last(chunkLog).start = start_date

\* FETCH_ALL_STATES spells true, 1 or yes, in any case
ToggleOn == fetch_all_states \in {"true", "TRUE", "1", "Yes"}

\* C30: the filter of the Linear list query carries the state restriction
\* (type in completed, canceled) if and only if the FETCH_ALL_STATES toggle is
\* off, the updatedAt cutoff in both modes, and the team restriction, to the
\* team given, if and only if a team id that is neither None nor empty is
\* given; once built the filter does not change, and every request of the
\* pagination carries it.
C30_StateFilterToggle ==
    /\ [](issue_filter # <<>>
            => /\ issue_filter[1].state # <<>> <=> ~ToggleOn
               /\ ~ToggleOn
                     => issue_filter[1].state = << {"completed", "canceled"} >>
               /\ Len(issue_filter[1].updatedAt) = 1
               /\ issue_filter[1].team # <<>> <=> team_id = "team-1"
               /\ team_id = "team-1" => issue_filter[1].team = <<"team-1">>)
    /\ [](listFetch.sent # <<>>
            => (issue_filter # <<>> /\ listFetch.filters = {issue_filter}))
    /\ [][issue_filter # <<>> => issue_filter' = issue_filter]_vars

\* the second page of a pagination has been served with the toggle on and a
\* team given
C30_Witness ==
    /\ fetch_all_states = "TRUE"
    /\ team_id = "team-1"
    /\ listFetch.pages = 2
    /\ listFetch.filters
          = {<<[updatedAt |-> <<Today - ChunkDays>>, state |-> <<>>,
                team |-> <<"team-1">>]>>}

\* ceil(days_back / 30) for a window that is not empty, else 0
ChunksDue ==
    IF days_back > 0 THEN (days_back + ChunkDays - 1) \div ChunkDays ELSE 0

\* C31: the chunked scan of the Pylon exporter ends and tiles the window.
\* The chunk loop issues ceil(days_back / 30) requests and then ends, none
\* when days_back is zero or negative; the first chunk ends at end_date, each
\* later chunk is older than the one before and ends where that one starts,
\* and the last chunk starts at start_date.
C31_ChunksTileWindow ==
    /\ Len(chunkLog) <= ChunksDue
    /\ pc = "chunks" => Len(chunkLog) < ChunksDue
    /\ (PhaseOf(pc) >= 2 /\ primaryError # "none")
          => Len(chunkLog) = ChunksDue
    /\ chunkLog # <<>> => chunkLog[1].end = end_date
    /\ \A k \in 1..(Len(chunkLog) - 1) :
          /\ chunkLog[k + 1].end = chunkLog[k].start
          /\ chunkLog[k + 1].end < chunkLog[k].end
          /\ chunkLog[k + 1].start < chunkLog[k].start
    /\ (PhaseOf(pc) >= 2 /\ chunkLog # <<>>)
          => Last(chunkLog).start = start_date

\* a window of 61 days has been scanned in three chunks, the last of one
\* day, although the second request failed
C31_Witness ==
    /\ days_back = 2 * ChunkDays + 1
    /\ pc = "assemble"
    /\ Len(chunkLog) = 3
    /\ ~chunkLog[2].ok
    /\ chunkLog[3].end - chunkLog[3].start = 1
    /\ chunkLog[3].start = start_date

\* a closed issue of the list has a date with a time zone as the first of
\* its dates that parses
AwareClosed(issues) ==
    \E k \in 1..Len(issues) :
        /\ issues[k].state = "closed"
        /\ FirstParseable(issues[k]).kind = "aware"

\* the issues of the chunks answered so far whose state is closed, whatever
\* their dates, in the order of the chunks
RECURSIVE ClosedOfChunks(_)
ClosedOfChunks(log) ==
    IF log = <<>> THEN <<>>
    ELSE SelectSeq(Head(log).data, LAMBDA x : x.state = "closed")
         \o ClosedOfChunks(Tail(log))

\* C32: in the Pylon orchestrator the chunked scan is entered also when the
\* search has returned and the filtering of what it returned raises, as it
\* does on a closed issue whose date has a time zone. The run is not
\* aborted, nothing the search returned is kept, the chunk loop runs in
\* full, and the ticket list, the records and the result are made of the
\* closed issues of the chunks alone, whatever their dates.
C32_FilterErrorStartsChunks ==
    /\ (searched # <<>> /\ AwareClosed(searched[1]))
          => /\ primaryError = "filter"
             /\ pc \in {"chunks", "assemble", "messages", "done", "saved"}
             /\ all_issues = <<>>
             /\ filtered_issues = ClosedOfChunks(chunkLog)
             /\ PhaseOf(pc) >= 2 => Len(chunkLog) = ChunksDue
             /\ \A n \in 1..Len(all_tickets) :
                    all_tickets[n].issue = ClosedOfChunks(chunkLog)[all_tickets[n].idx]
             /\ pc = "done" => result[1].tickets = all_tickets
    /\ primaryError = "filter" => (searched # <<>> /\ AwareClosed(searched[1]))

\* the search returned two closed issues, one of them with a time zone in
\* its date, and the result holds neither of them but a ticket of a chunk
\* that is older than the window
C32_Witness ==
    /\ pc = "done"
    /\ primaryError = "filter"
    /\ Len(searched[1]) = 2
    /\ Len(chunkLog) = 2
    /\ Len(result[1].tickets) = 1
    /\ result[1].tickets[1].issue.created_at.day < start_date
    /\ \A k \in 1..2 : searched[1][k] # result[1].tickets[1].issue

====
